---- MODULE Spec2Model ----
(***************************************************************************)
(* Model of the coin-purse round logic:                                    *)
(*   src/src/rgs/state.ts            module state, setGameState,           *)
(*                                   executeGameRound, finalizeRound       *)
(*   src/src/game/gameRoundHelper.ts handleGameRound                       *)
(* JavaScript runs one task at a time, so an action is one synchronous run *)
(* of a function: from its call, or from the resumption of an await, up to *)
(* its next await.                                                         *)
(* Money: balance and bets are whole player units, server amounts are API  *)
(* units (1000000 per player unit), payout multipliers and lastWin are in  *)
(* tenths (6 stands for 0.6).                                              *)
(***************************************************************************)
EXTENDS Integers, FiniteSets, Sequences, TLC

\* ---------------------------------------------------------------- bounds
MaxCalls == 3       \* executeGameRound calls in SpecExec
MaxApiCalls == 2    \* executeGameRound calls in Spec
MaxFins == 1        \* finalizeRound calls in Spec
MaxRounds == 2      \* handleGameRound invocations in SpecRound

\* ------------------------------------------------------------- constants
InitialBalance == 1000
API_MULTIPLIER == 1000000
NumCups == 3
HGBet == 1
NoPick == -1

GameStates == {"rest", "playing", "awaiting_pick", "resolving"}
CallIds == 1..(IF MaxCalls > MaxApiCalls THEN MaxCalls ELSE MaxApiCalls)
ExecCallIds == 1..MaxCalls
ApiCallIds == 1..MaxApiCalls
FinIds == 1..MaxFins
Cups == 0..(NumCups - 1)
Bets == {1, 2}

\* Errors seen by executeGameRound's catch block: "invalid_state" is the
\* Error of line 86, the other two are the classes of start-round failure.
PlayRoundErrors == {"active_bet", "network"}

\* PlayResponse values: round absent, payoutMultiplier absent, 0, 0.6
NoResponse == [present |-> FALSE, round |-> FALSE, hasPm |-> FALSE, pm |-> 0]
PlayResponses ==
  { [present |-> TRUE, round |-> FALSE, hasPm |-> FALSE, pm |-> 0],
    [present |-> TRUE, round |-> TRUE, hasPm |-> FALSE, pm |-> 0],
    [present |-> TRUE, round |-> TRUE, hasPm |-> TRUE, pm |-> 0],
    [present |-> TRUE, round |-> TRUE, hasPm |-> TRUE, pm |-> 6] }

\* EndRoundResponse values: balance.amount is a number of API units, as the
\* type declares it; NoConfirmation is the null of state.ts:10
NoConfirmation == [present |-> FALSE, hasAmount |-> FALSE, amount |-> 0]
Confirmations ==
  { [present |-> TRUE, hasAmount |-> TRUE, amount |-> 999000000],
    [present |-> TRUE, hasAmount |-> TRUE, amount |-> 1001000000] }

VARIABLES
  gamestate,          \* state.ts:8
  response,           \* state.ts:9
  endRoundResponse,   \* state.ts:10
  balance,            \* state.ts:11
  lastWin,            \* state.ts:12
  execs,              \* executeGameRound invocations, by call id
  fins,               \* finalizeRound invocations, by call id
  smLog,              \* outcome of the last setGameState call
  deductions,         \* number of bet deductions applied so far
  dedSinceRest,       \* bet deductions since the phase last was rest
  hgPc,               \* where the handleGameRound invocation stands
  opts,               \* its options, gameRoundHelper.ts:44-54
  playResponse,       \* gameRoundHelper.ts:64
  activeBetError,     \* gameRoundHelper.ts:65
  chosenIdx,          \* gameRoundHelper.ts:82, shared by the pointertap handlers
  otherIdx,           \* gameRoundHelper.ts:175
  interactive,        \* cup.interactive of each cup
  listeners,          \* pointertap handlers are registered on the cups
  diamondVisible,     \* diamondSprite.visible
  diamondAt,          \* the cup the diamond sprite was last placed at
  rounds,             \* handleGameRound invocations so far
  obs,                \* what the collaborators of this invocation observed
  ui                  \* the UI controls and the rgs/uiControls module state

stateVars == <<gamestate, response, endRoundResponse, balance, lastWin>>
callVars == <<execs, fins>>
histVars == <<smLog, deductions, dedSinceRest>>
frameVars == <<opts, playResponse, activeBetError, otherIdx>>
cupVars == <<chosenIdx, interactive, listeners>>
diamondVars == <<diamondVisible, diamondAt>>
hgVars == <<hgPc, frameVars, cupVars, diamondVars, rounds, obs>>
vars == <<stateVars, callVars, histVars, hgVars, ui>>

\* an executeGameRound invocation: not made, awaiting playRound with its
\* betAmount, returned or thrown
NoExec == [st |-> "none", bet |-> 0]
NoFin == "none"

NoOpts == [skipAnimation |-> FALSE, forceEndRound |-> FALSE, showWinModal |-> FALSE]
Options == [skipAnimation : BOOLEAN, forceEndRound : BOOLEAN, showWinModal : BOOLEAN]

\* finalizeCalls: calls of finalizeRound; picks: accepted pointertaps;
\* animSteps: liftCup/lowerCup calls; revealAt: cup the diamond was shown at;
\* modalArg: argument of showWinModal (-1: not called); restPhase: phase when
\* onRest ran; lateTaps: a pointertap arrived after the pick;
\* balanceUpdates: calls of onBalanceUpdate, balanceArg: its last argument;
\* balBefore: balance when executeGameRound was called; execErr: the error
\* executeGameRound threw to handleGameRound
NoObs == [finalizeCalls |-> 0, picks |-> 0, animSteps |-> 0, revealAt |-> NoPick,
          modalArg |-> -1, restPhase |-> "none", lateTaps |-> FALSE,
          balanceUpdates |-> 0, balanceArg |-> NoConfirmation,
          balBefore |-> 0, execErr |-> "none"]

\* the control groups of GameControls (betButtons, playButton, cups); the
\* UIComponents of updateUIStates are the same three groups
Groups == {"betButtons", "playButton", "cups"}

\* alpha in tenths
AlphaFull == 10
AlphaUIStatesOff == 5
AlphaControlsOff == 6

\* a control nothing has enabled or disabled yet
NewControl == [eventMode |-> "auto", cursor |-> "default", alpha |-> AlphaFull,
               interactive |-> FALSE]

\* controls: the attributes of each group; currentControls: the groups
\* registered with registerGameControls; getter: setGameStateGetter was
\* called; by, for, on: the gate function that ran last, the phase it ran
\* for and the groups it reached
NoUI == [controls |-> [g \in Groups |-> NewControl],
         currentControls |-> {},
         getter |-> FALSE,
         by |-> "none", for |-> "rest", on |-> {}]

Init ==
  /\ gamestate = "rest"
  /\ response = NoResponse
  /\ endRoundResponse = NoConfirmation
  /\ balance = InitialBalance
  /\ lastWin = 0
  /\ execs = [c \in CallIds |-> NoExec]
  /\ fins = [f \in FinIds |-> NoFin]
  /\ smLog = "none"
  /\ deductions = 0
  /\ dedSinceRest = 0
  /\ hgPc = "idle"
  /\ opts = NoOpts
  /\ playResponse = NoResponse
  /\ activeBetError = FALSE
  /\ chosenIdx = NoPick
  /\ otherIdx = NoPick
  /\ interactive = [c \in Cups |-> FALSE]
  /\ listeners = FALSE
  /\ diamondVisible = FALSE
  /\ diamondAt = NoPick
  /\ rounds = 0
  /\ obs = NoObs
  /\ ui = NoUI

\* ------------------------------------------------------- state machine
validTransitionsExtra ==
  [s \in GameStates |->
     CASE s = "rest" -> {"playing", "resolving"}
       [] s = "playing" -> {"awaiting_pick", "rest"}
       [] s = "awaiting_pick" -> {"resolving"}
       [] s = "resolving" -> {"rest"}]

validTransitions ==
  [s \in GameStates |->
     CASE s = "rest" -> {"playing"}
       [] s = "playing" -> {"awaiting_pick", "rest"}
       [] s = "awaiting_pick" -> {"resolving"}
       [] s = "resolving" -> {"rest"}]

\* setGameState: an invalid request warns and returns, a valid one assigns
setGameState(newState) ==
  IF newState \notin validTransitions[gamestate]
  THEN /\ gamestate' = gamestate
       /\ smLog' = "rejected"
  ELSE /\ gamestate' = newState
       /\ smLog' = "applied"

canAdjustBet == gamestate = "rest"
\* a start gate that is also open while a round is playing
canStartPlayLoose == gamestate \in {"rest", "playing"}

canStartPlay == gamestate = "rest"
\* a pick gate that stays open while the round resolves
canPickCupLoose == gamestate \in {"awaiting_pick", "resolving"}

canPickCup == gamestate = "awaiting_pick"

\* bookkeeping of bet deductions; d is the number applied in this step
Track(d) ==
  /\ deductions' = deductions + d
  /\ dedSinceRest' = IF gamestate' = "rest" THEN 0 ELSE dedSinceRest + d

\* isActiveBetError (rgs/api): true exactly for the server's
\* "a round is already open" failure
isActiveBetError(err) == err = "active_bet"

Pending == {c \in CallIds : execs[c].st = "pending"}

\* the catch block without the reset of line 118
ExecCatchNoReset(err) == UNCHANGED <<gamestate, smLog>>

\* catch block of executeGameRound, lines 111-120: an active-bet error is
\* rethrown as it is, any other error resets the phase first
ExecCatch(err) ==
  IF isActiveBetError(err)
  THEN UNCHANGED <<gamestate, smLog>>
  ELSE setGameState("rest")

\* the same run with the deduction moved ahead of the canStartPlay check
ExecSyncNoGuard(c, bet) ==
  /\ balance' = balance - bet
  /\ IF canStartPlay
     THEN /\ setGameState("playing")
          /\ execs' = [execs EXCEPT ![c] = [st |-> "pending", bet |-> bet]]
     ELSE /\ ExecCatch("invalid_state")
          /\ execs' = [execs EXCEPT ![c] = [st |-> "threw", bet |-> 0]]
  /\ Track(1)
  /\ UNCHANGED <<response, endRoundResponse, lastWin>>

\* executeGameRound from its call to its await of playRound, lines 84-94;
\* the Error of line 86 is caught by the function's own catch block
ExecSync(c, bet) ==
  IF canStartPlay
  THEN /\ balance' = balance - bet
       /\ setGameState("playing")
       /\ execs' = [execs EXCEPT ![c] = [st |-> "pending", bet |-> bet]]
       /\ Track(1)
       /\ UNCHANGED <<response, endRoundResponse, lastWin>>
  ELSE /\ ExecCatch("invalid_state")
       /\ execs' = [execs EXCEPT ![c] = [st |-> "threw", bet |-> 0]]
       /\ Track(0)
       /\ UNCHANGED <<response, endRoundResponse, balance, lastWin>>

\* the win amount with the bet added instead of multiplied
LastWinOfSum(resp, bet) ==
  IF resp.present /\ resp.round /\ resp.hasPm
  THEN resp.pm + bet
  ELSE 0

\* lines 99-103
LastWinOf(resp, bet) ==
  IF resp.present /\ resp.round /\ resp.hasPm
  THEN resp.pm * bet
  ELSE 0

\* executeGameRound resumed with the start-round response, lines 94-110
ExecResume(c, resp) ==
  /\ execs[c].st = "pending"
  /\ response' = resp
  /\ endRoundResponse' = NoConfirmation
  /\ lastWin' = LastWinOf(resp, execs[c].bet)
  /\ execs' = [execs EXCEPT ![c] = [st |-> "returned", bet |-> 0]]
  /\ UNCHANGED <<gamestate, smLog, balance>>
  /\ Track(0)

\* executeGameRound resumed with a start-round failure, lines 111-120
ExecFail(c, err) ==
  /\ execs[c].st = "pending"
  /\ ExecCatch(err)
  /\ execs' = [execs EXCEPT ![c] = [st |-> "threw", bet |-> 0]]
  /\ UNCHANGED <<response, endRoundResponse, balance, lastWin>>
  /\ Track(0)

\* finalizeRound from its call to its await of endRound, lines 125-126
FinSync(f) ==
  /\ fins' = [fins EXCEPT ![f] = "pending"]

\* finalizeRound resumed with the confirmation, lines 126-135; the
\* transition is requested when the amount is not null
FinResume(f, confirmation) ==
  /\ fins[f] = "pending"
  /\ balance' = confirmation.amount \div API_MULTIPLIER
  /\ endRoundResponse' = confirmation
  /\ IF confirmation.hasAmount
     THEN setGameState("rest")
     ELSE UNCHANGED <<gamestate, smLog>>
  /\ fins' = [fins EXCEPT ![f] = "returned"]
  /\ UNCHANGED <<response, lastWin>>
  /\ Track(0)

\* the failure branch forcing the phase back to rest
FinFailReset(f) ==
  /\ fins[f] = "pending"
  /\ fins' = [fins EXCEPT ![f] = "threw"]
  /\ setGameState("rest")
  /\ UNCHANGED <<response, endRoundResponse, balance, lastWin>>
  /\ Track(0)

\* finalizeRound resumed with an end-round failure, lines 136-139
FinFail(f) ==
  /\ fins[f] = "pending"
  /\ fins' = [fins EXCEPT ![f] = "threw"]
  /\ UNCHANGED <<stateVars, smLog>>
  /\ Track(0)

\* ------------------------------------------- operations of rgs/state.ts
SetGameStateReq(newState) ==
  /\ setGameState(newState)
  /\ Track(0)
  /\ UNCHANGED <<response, endRoundResponse, balance, lastWin, callVars, hgVars, ui>>

SetAwaitingPick == SetGameStateReq("awaiting_pick")
StartResolving == SetGameStateReq("resolving")
HandleLoss == SetGameStateReq("rest")

ExecuteGameRound(c, bet) ==
  /\ UNCHANGED <<hgVars, ui>>
  /\ execs[c].st = "none"
  /\ \A d \in CallIds : d < c => execs[d].st # "none"
  /\ ExecSync(c, bet)
  /\ UNCHANGED fins

PlayRoundReturn(c, resp) ==
  /\ UNCHANGED <<hgVars, ui>>
  /\ ExecResume(c, resp)
  /\ UNCHANGED fins

PlayRoundFail(c, err) ==
  /\ UNCHANGED <<hgVars, ui>>
  /\ ExecFail(c, err)
  /\ UNCHANGED fins

FinalizeRound(f) ==
  /\ UNCHANGED <<hgVars, ui>>
  /\ fins[f] = "none"
  /\ \A d \in FinIds : d < f => fins[d] # "none"
  /\ FinSync(f)
  /\ UNCHANGED <<stateVars, smLog, execs>>
  /\ Track(0)

EndRoundReturn(f, confirmation) ==
  /\ UNCHANGED <<hgVars, ui>>
  /\ FinResume(f, confirmation)
  /\ UNCHANGED execs

EndRoundFail(f) ==
  /\ UNCHANGED <<hgVars, ui>>
  /\ FinFail(f)
  /\ UNCHANGED execs

\* every exported operation of rgs/state.ts, called in any order
Next ==
  \/ \E s \in GameStates : SetGameStateReq(s)
  \/ SetAwaitingPick
  \/ StartResolving
  \/ HandleLoss
  \/ \E c \in ApiCallIds, b \in Bets : ExecuteGameRound(c, b)
  \/ \E c \in ApiCallIds, r \in PlayResponses : PlayRoundReturn(c, r)
  \/ \E c \in ApiCallIds, e \in PlayRoundErrors : PlayRoundFail(c, e)
  \/ \E f \in FinIds : FinalizeRound(f)
  \/ \E f \in FinIds, k \in Confirmations : EndRoundReturn(f, k)
  \/ \E f \in FinIds : EndRoundFail(f)

Spec == Init /\ [][Next]_vars

\* any number of executeGameRound calls and their start-round responses
NextExec ==
  \/ \E c \in ExecCallIds, b \in Bets : ExecuteGameRound(c, b)
  \/ \E c \in ExecCallIds, r \in PlayResponses : PlayRoundReturn(c, r)
  \/ \E c \in ExecCallIds, e \in PlayRoundErrors : PlayRoundFail(c, e)

SpecExec == Init /\ [][NextExec]_vars

\* ------------------------------- handleGameRound, game/gameRoundHelper.ts
\* The invocation uses call HGCall of executeGameRound and call HGFin of
\* finalizeRound.  A promise it awaits settles in the run that settles it:
\* the continuation is a microtask, which no other task can precede.
HGCall == 1
HGFin == 1

\* lines 142-144, and again line 164
IsWin(resp) == resp.present /\ resp.round /\ resp.hasPm /\ resp.pm > 0

\* line 132 with the active-bet flag dropped
SkipOutcomeForceOnly == opts.forceEndRound

\* line 132 with the test dropped
SkipOutcomeAlways == TRUE

\* line 132: finalize right after the pick, without any animation
SkipOutcome == activeBetError \/ opts.forceEndRound

\* lines 81-110: make every cup interactive, replace the pointertap handlers
SetupCups ==
  /\ chosenIdx' = NoPick
  /\ interactive' = [c \in Cups |-> TRUE]
  /\ listeners' = TRUE

\* lines 70-77: the catch around executeGameRound
HGExecFailed(err) ==
  IF isActiveBetError(err)
  THEN /\ activeBetError' = TRUE
       /\ SetupCups
       /\ hgPc' = "awaitPick"
  ELSE /\ hgPc' = "rejected"
       /\ UNCHANGED <<activeBetError, cupVars>>

\* handleGameRound is called: lines 40-62, up to the await of the import.
\* A new invocation starts when the previous one has ended: returned, thrown,
\* or stopped for good in a pointertap handler that threw.
HGStart(o) ==
  /\ hgPc \in {"idle", "done", "rejected", "hung"}
  /\ rounds < MaxRounds
  /\ rounds' = rounds + 1
  /\ hgPc' = "import"
  /\ opts' = o
  /\ playResponse' = NoResponse
  /\ activeBetError' = FALSE
  /\ obs' = NoObs
  /\ execs' = [execs EXCEPT ![HGCall] = NoExec]
  /\ fins' = [fins EXCEPT ![HGFin] = NoFin]
  /\ UNCHANGED <<stateVars, histVars, otherIdx, cupVars, diamondVars>>
  /\ UNCHANGED ui

\* the cups made pickable as soon as the start-round request is sent
HGAfterImportEarlyCups ==
  /\ hgPc = "import"
  /\ IF ~opts.skipAnimation
     THEN /\ ExecSync(HGCall, HGBet)
          /\ obs' = [obs EXCEPT !.balBefore = balance,
                                !.execErr = IF canStartPlay THEN "none" ELSE "invalid_state"]
          /\ IF canStartPlay
             THEN /\ hgPc' = "exec"
                  /\ SetupCups
                  /\ UNCHANGED activeBetError
             ELSE HGExecFailed("invalid_state")
     ELSE /\ SetupCups
          /\ hgPc' = "awaitPick"
          /\ UNCHANGED <<stateVars, histVars, execs, activeBetError, obs>>
  /\ UNCHANGED <<fins, opts, playResponse, otherIdx, diamondVars, rounds>>
  /\ UNCHANGED ui

\* lines 64-69 (and 81-110 when skipAnimation): executeGameRound(1) is called
HGAfterImport ==
  /\ hgPc = "import"
  /\ IF ~opts.skipAnimation
     THEN /\ ExecSync(HGCall, HGBet)
          /\ obs' = [obs EXCEPT !.balBefore = balance,
                                !.execErr = IF canStartPlay THEN "none" ELSE "invalid_state"]
          /\ IF canStartPlay
             THEN /\ hgPc' = "exec"
                  /\ UNCHANGED <<activeBetError, cupVars>>
             ELSE HGExecFailed("invalid_state")
     ELSE /\ SetupCups
          /\ hgPc' = "awaitPick"
          /\ UNCHANGED <<stateVars, histVars, execs, activeBetError, obs>>
  /\ UNCHANGED <<fins, opts, playResponse, otherIdx, diamondVars, rounds>>
  /\ UNCHANGED ui

\* the start-round request succeeds: state.ts:94-110, then lines 69 and 81-110
HGPlayReturn(resp) ==
  /\ hgPc = "exec"
  /\ ExecResume(HGCall, resp)
  /\ playResponse' = resp
  /\ SetupCups
  /\ hgPc' = "awaitPick"
  /\ UNCHANGED <<fins, opts, activeBetError, otherIdx, diamondVars, rounds, obs>>
  /\ UNCHANGED ui

\* the start-round request fails: state.ts:111-120, then lines 70-77
HGPlayFail(err) ==
  /\ hgPc = "exec"
  /\ ExecFail(HGCall, err)
  /\ HGExecFailed(err)
  /\ obs' = [obs EXCEPT !.execErr = err]
  /\ UNCHANGED <<fins, opts, playResponse, otherIdx, diamondVars, rounds>>
  /\ UNCHANGED ui

\* the pointertap handler without the check of line 112
PointerTapNoGuard(idx) ==
  /\ listeners
  /\ hgPc \in {"awaitPick", "finalizeRecovery", "liftChosen"}
  /\ chosenIdx' = idx
  /\ interactive' = [c \in Cups |-> FALSE]
  /\ IF SkipOutcome
     THEN /\ FinSync(HGFin)
          /\ hgPc' = "finalizeRecovery"
          /\ obs' = [obs EXCEPT !.picks = @ + 1, !.finalizeCalls = @ + 1]
     ELSE /\ hgPc' = "liftChosen"
          /\ obs' = [obs EXCEPT !.picks = @ + 1, !.animSteps = @ + 1]
          /\ UNCHANGED fins
  /\ UNCHANGED <<stateVars, histVars, execs, frameVars, listeners, diamondVars, rounds>>
  /\ UNCHANGED ui

\* a pointertap is delivered to cup idx: lines 111-140, up to the first await
PointerTap(idx) ==
  /\ listeners
  /\ IF chosenIdx # NoPick
     THEN /\ obs' = [obs EXCEPT !.lateTaps = TRUE]
          /\ UNCHANGED <<hgPc, fins, chosenIdx, interactive>>
     ELSE /\ chosenIdx' = idx
          /\ interactive' = [c \in Cups |-> FALSE]
          /\ IF SkipOutcome
             THEN /\ FinSync(HGFin)
                  /\ hgPc' = "finalizeRecovery"
                  /\ obs' = [obs EXCEPT !.picks = @ + 1, !.finalizeCalls = @ + 1]
             ELSE /\ hgPc' = "liftChosen"
                  /\ obs' = [obs EXCEPT !.picks = @ + 1, !.animSteps = @ + 1]
                  /\ UNCHANGED fins
  /\ UNCHANGED <<stateVars, histVars, execs, frameVars, listeners, diamondVars, rounds>>
  /\ UNCHANGED ui

\* an animation or timer step that changes nothing but the position
HGStep(from, to) ==
  /\ hgPc = from
  /\ hgPc' = to
  /\ UNCHANGED <<stateVars, callVars, histVars, frameVars, cupVars, diamondVars, rounds>>
  /\ UNCHANGED ui

\* liftCup(cup) is done: lines 140-155 on a win, 170-172 otherwise
LiftChosenDone ==
  /\ hgPc = "liftChosen"
  /\ IF IsWin(playResponse)
     THEN /\ diamondVisible' = TRUE
          /\ diamondAt' = chosenIdx
          /\ obs' = [obs EXCEPT !.revealAt = chosenIdx]
          /\ hgPc' = "winHold"
     ELSE /\ hgPc' = "lossHold"
          /\ UNCHANGED <<diamondVars, obs>>
  /\ UNCHANGED <<stateVars, callVars, histVars, frameVars, cupVars, rounds>>
  /\ UNCHANGED ui

\* the 800 ms hold is over: line 156, lowerCup(cup) starts
WinHoldDone ==
  /\ HGStep("winHold", "winLower")
  /\ obs' = [obs EXCEPT !.animSteps = @ + 1]

\* the win branch without line 157: the marker stays visible
WinLowerDoneKeepMarker ==
  /\ hgPc = "winLower"
  /\ FinSync(HGFin)
  /\ obs' = [obs EXCEPT !.finalizeCalls = @ + 1]
  /\ hgPc' = "finalizeWin"
  /\ UNCHANGED <<stateVars, execs, histVars, frameVars, cupVars, diamondVars, rounds>>
  /\ UNCHANGED ui

\* lowerCup(cup) is done: lines 157-160, finalizeRound is called
WinLowerDone ==
  /\ hgPc = "winLower"
  /\ diamondVisible' = FALSE
  /\ FinSync(HGFin)
  /\ obs' = [obs EXCEPT !.finalizeCalls = @ + 1]
  /\ hgPc' = "finalizeWin"
  /\ UNCHANGED <<stateVars, execs, histVars, frameVars, cupVars, diamondAt, rounds>>
  /\ UNCHANGED ui

\* line 136: the argument of onBalanceUpdate when no confirmation is stored
FallbackConfirmation == [present |-> TRUE, hasAmount |-> TRUE, amount |-> 0]

\* the end-round request succeeds: state.ts:126-135, then lines 135-137 on
\* the recovery path, lines 161-166 on the win path
HGEndRoundReturn(confirmation) ==
  /\ hgPc \in {"finalizeRecovery", "finalizeWin"}
  /\ FinResume(HGFin, confirmation)
  /\ obs' = [obs EXCEPT !.balanceUpdates = @ + 1,
                        !.balanceArg = IF hgPc = "finalizeWin" \/ endRoundResponse'.present
                                       THEN confirmation
                                       ELSE FallbackConfirmation]
  /\ hgPc' = IF hgPc = "finalizeWin" /\ opts.showWinModal /\ IsWin(playResponse)
             THEN "winImport"
             ELSE "resolved"
  /\ UNCHANGED <<execs, frameVars, cupVars, diamondVars, rounds>>
  /\ UNCHANGED ui

\* the end-round request fails: state.ts:136-139; the pointertap handler
\* throws, resolve() of line 196 is never called
HGEndRoundFail ==
  /\ hgPc \in {"finalizeRecovery", "finalizeWin"}
  /\ FinFail(HGFin)
  /\ hgPc' = "hung"
  /\ UNCHANGED <<execs, frameVars, cupVars, diamondVars, rounds, obs>>
  /\ UNCHANGED ui

\* lines 166-168, then 194-196
WinImportDone ==
  /\ HGStep("winImport", "resolved")
  /\ obs' = [obs EXCEPT !.modalArg = lastWin]

\* the 600 ms hold is over: line 173, lowerCup(cup) starts
LossHoldDone ==
  /\ HGStep("lossHold", "lossLower")
  /\ obs' = [obs EXCEPT !.animSteps = @ + 1]

\* a draw that always yields the first cup
RandomIdxZero == {0}

\* a draw that never yields the last cup
RandomIdxShort == 0..(NumCups - 2)

\* Math.floor(Math.random() * 3)
RandomIdx == 0..(NumCups - 1)

\* lowerCup(cup) is done: line 175, the first draw
LossLowerDone(d) ==
  /\ hgPc = "lossLower"
  /\ d \in RandomIdx
  /\ otherIdx' = d
  /\ hgPc' = "lossLoop"
  /\ UNCHANGED <<stateVars, callVars, histVars, opts, playResponse, activeBetError,
                 cupVars, diamondVars, rounds, obs>>
  /\ UNCHANGED ui

\* line 176: the draw hit the selection, draw again
LossRedraw(d) ==
  /\ hgPc = "lossLoop"
  /\ otherIdx = chosenIdx
  /\ d \in RandomIdx
  /\ otherIdx' = d
  /\ UNCHANGED <<hgPc, stateVars, callVars, histVars, opts, playResponse, activeBetError,
                 cupVars, diamondVars, rounds, obs>>
  /\ UNCHANGED ui

\* lines 176-178: the loop ends, liftCup(otherCup) starts
LossLoopExit ==
  /\ otherIdx # chosenIdx
  /\ HGStep("lossLoop", "lossLiftOther")
  /\ obs' = [obs EXCEPT !.animSteps = @ + 1]

\* liftCup(otherCup) is done: lines 179-187
LossLiftOtherDone ==
  /\ hgPc = "lossLiftOther"
  /\ diamondVisible' = TRUE
  /\ diamondAt' = otherIdx
  /\ obs' = [obs EXCEPT !.revealAt = otherIdx]
  /\ hgPc' = "lossHold2"
  /\ UNCHANGED <<stateVars, callVars, histVars, frameVars, cupVars, rounds>>
  /\ UNCHANGED ui

\* the 800 ms hold is over: line 188, lowerCup(otherCup) starts
LossHold2Done ==
  /\ HGStep("lossHold2", "lossLowerOther")
  /\ obs' = [obs EXCEPT !.animSteps = @ + 1]

\* lowerCup(otherCup) is done: lines 189-196
LossLowerOtherDone ==
  /\ hgPc = "lossLowerOther"
  /\ diamondVisible' = FALSE
  /\ hgPc' = "resolved"
  /\ UNCHANGED <<stateVars, callVars, histVars, frameVars, cupVars, diamondAt, rounds, obs>>
  /\ UNCHANGED ui

\* line 200: the awaited promise is resolved, onRest runs
HGOnRest ==
  /\ HGStep("resolved", "done")
  /\ obs' = [obs EXCEPT !.restPhase = gamestate]

\* rounds of handleGameRound, one after the other
NextRound ==
  \/ \E o \in Options : HGStart(o)
  \/ HGAfterImport
  \/ \E r \in PlayResponses : HGPlayReturn(r)
  \/ \E e \in PlayRoundErrors : HGPlayFail(e)
  \/ \E c \in Cups : PointerTap(c)
  \/ LiftChosenDone
  \/ WinHoldDone
  \/ WinLowerDone
  \/ \E k \in Confirmations : HGEndRoundReturn(k)
  \/ HGEndRoundFail
  \/ WinImportDone
  \/ LossHoldDone
  \/ \E d \in RandomIdx : LossLowerDone(d)
  \/ \E d \in RandomIdx : LossRedraw(d)
  \/ LossLoopExit
  \/ LossLiftOtherDone
  \/ LossHold2Done
  \/ LossLowerOtherDone
  \/ HGOnRest

SpecRound == Init /\ [][NextRound]_vars

\* the steps of a round that the event loop, the network, the animations
\* and the player complete: every step of NextRound but the start of a new
\* invocation, a tap after the pick, and a further draw of the loop
HGProgress ==
  \/ HGAfterImport
  \/ \E r \in PlayResponses : HGPlayReturn(r)
  \/ \E e \in PlayRoundErrors : HGPlayFail(e)
  \/ \E c \in Cups : (chosenIdx = NoPick /\ PointerTap(c))
  \/ LiftChosenDone
  \/ WinHoldDone
  \/ WinLowerDone
  \/ \E k \in Confirmations : HGEndRoundReturn(k)
  \/ HGEndRoundFail
  \/ WinImportDone
  \/ LossHoldDone
  \/ \E d \in RandomIdx : LossLowerDone(d)
  \/ LossLoopExit
  \/ LossLiftOtherDone
  \/ LossHold2Done
  \/ LossLowerOtherDone
  \/ HGOnRest

\* rounds of handleGameRound in which every awaited call settles, the player
\* picks, and Math.random keeps yielding every index (line 176)
SpecRoundLive ==
  /\ Init
  /\ [][NextRound]_vars
  /\ WF_vars(HGProgress)
  /\ \A d \in RandomIdx : WF_vars(LossRedraw(d))

\* ------------------------------------------- the UI gate, ui/stateManager.ts
\* and the UI game control helper
\* stateManager.ts:43-53
setBetButtonsEnabled(button, enabled) ==
  [button EXCEPT !.eventMode = IF enabled THEN "static" ELSE "none",
                 !.cursor = IF enabled THEN "pointer" ELSE "default",
                 !.alpha = IF enabled THEN AlphaFull ELSE AlphaUIStatesOff]

\* stateManager.ts:55-59
setPlayButtonEnabled(playButton, enabled) ==
  [playButton EXCEPT !.eventMode = IF enabled THEN "static" ELSE "none",
                     !.cursor = IF enabled THEN "pointer" ELSE "default",
                     !.alpha = IF enabled THEN AlphaFull ELSE AlphaUIStatesOff]

\* stateManager.ts:61-74
setCupsEnabled(cup, enabled) ==
  [cup EXCEPT !.eventMode = IF enabled THEN "static" ELSE "none",
              !.cursor = IF enabled THEN "pointer" ELSE "default",
              !.interactive = enabled]

\* stateManager.ts:20-41, applied to the controls cs in the current phase
updateUIStates(cs) ==
  [g \in Groups |->
     CASE g = "betButtons" -> setBetButtonsEnabled(cs[g], canAdjustBet)
       [] g = "playButton" -> setPlayButtonEnabled(cs[g], canStartPlay)
       [] g = "cups" -> setCupsEnabled(cs[g], canPickCup)]

\* helper lines 69-80
enableControls(control) ==
  [control EXCEPT !.interactive = TRUE, !.eventMode = "static",
                  !.cursor = "pointer", !.alpha = AlphaFull]

\* helper lines 82-93
disableControls(control) ==
  [control EXCEPT !.interactive = FALSE, !.eventMode = "passive",
                  !.cursor = "default", !.alpha = AlphaControlsOff]

\* the switch with the cups left enabled while the round resolves
updateControlsForStateLoose(cs, registered, state) ==
  [g \in Groups |->
     IF g \notin registered
     THEN cs[g]
     ELSE CASE state = "rest" ->
                 IF g = "cups" THEN disableControls(cs[g]) ELSE enableControls(cs[g])
            [] state = "playing" -> disableControls(cs[g])
            [] state = "awaiting_pick" ->
                 IF g = "cups" THEN enableControls(cs[g]) ELSE disableControls(cs[g])
            [] state = "resolving" ->
                 IF g = "cups" THEN enableControls(cs[g]) ELSE disableControls(cs[g])
            [] OTHER -> cs[g]]

\* helper lines 29-66, applied to the controls cs of which the groups in
\* registered are present in currentControls
updateControlsForState(cs, registered, state) ==
  [g \in Groups |->
     IF g \notin registered
     THEN cs[g]
     ELSE CASE state = "rest" ->
                 IF g = "cups" THEN disableControls(cs[g]) ELSE enableControls(cs[g])
            [] state = "playing" -> disableControls(cs[g])
            [] state = "awaiting_pick" ->
                 IF g = "cups" THEN enableControls(cs[g]) ELSE disableControls(cs[g])
            [] state = "resolving" -> disableControls(cs[g])
            [] OTHER -> cs[g]]

\* the sets of groups a caller registers
ControlSets == {Groups, {"cups"}, {}}

\* updateUIStates(components) is called
UpdateUIStates ==
  /\ ui' = [ui EXCEPT !.controls = updateUIStates(ui.controls),
                      !.by = "updateUIStates", !.for = gamestate, !.on = Groups]
  /\ UNCHANGED <<stateVars, callVars, histVars, hgVars>>

\* helper lines 24-26, called with getGameState
SetGameStateGetter ==
  /\ ui' = [ui EXCEPT !.getter = TRUE]
  /\ UNCHANGED <<stateVars, callVars, histVars, hgVars>>

\* helper lines 16-19: without a getter line 18 throws a TypeError after
\* line 17
RegisterGameControls(registered) ==
  /\ ui' = IF ui.getter
           THEN [ui EXCEPT !.currentControls = registered,
                           !.controls = updateControlsForState(ui.controls, registered, gamestate),
                           !.by = "updateControlsForState", !.for = gamestate,
                           !.on = registered]
           ELSE [ui EXCEPT !.currentControls = registered]
  /\ UNCHANGED <<stateVars, callVars, histVars, hgVars>>

\* updateControlsForState(state) is called
UpdateControlsForState(state) ==
  /\ ui' = [ui EXCEPT !.controls = updateControlsForState(ui.controls, ui.currentControls, state),
                      !.by = "updateControlsForState", !.for = state,
                      !.on = ui.currentControls]
  /\ UNCHANGED <<stateVars, callVars, histVars, hgVars>>

\* the phase moves and either gate function is called, in any order
NextUI ==
  \/ \E s \in GameStates : SetGameStateReq(s)
  \/ UpdateUIStates
  \/ SetGameStateGetter
  \/ \E registered \in ControlSets : RegisterGameControls(registered)
  \/ \E s \in GameStates : UpdateControlsForState(s)

SpecUI == Init /\ [][NextUI]_vars

\* ------------------------------------------------------------- claims
LegalEdges ==
  { <<"rest", "playing">>, <<"playing", "awaiting_pick">>, <<"playing", "rest">>,
    <<"awaiting_pick", "resolving">>, <<"resolving", "rest">> }

\* C1: the phase changes only along the five edges of the transition table,
\* and a setGameState request for any other (current, next) pair returns
\* after the warning with the phase unchanged.
C1_PhaseFollowsEdges ==
  [][ /\ gamestate' # gamestate => <<gamestate, gamestate'>> \in LegalEdges
      /\ \A s \in GameStates :
           (SetGameStateReq(s) /\ <<gamestate, s>> \notin LegalEdges)
             => (gamestate' = gamestate /\ smLog' = "rejected") ]_vars

C1_Witness == gamestate = "resolving" /\ smLog = "rejected"

\* C2: a bet is deducted only in the step of executeGameRound that moves the
\* phase from rest to playing, by the bet amount, and at most once between
\* two visits to rest; a call from another phase leaves the balance alone.
C2_DeductOnlyOnStart ==
  [][ /\ deductions' # deductions =>
           /\ gamestate = "rest" /\ gamestate' = "playing"
           /\ deductions' = deductions + 1
           /\ (balance - balance') \in Bets
      /\ \A c \in CallIds :
           (execs[c].st = "none" /\ execs'[c].st # "none" /\ gamestate # "rest")
             => balance' = balance
      /\ dedSinceRest' <= 1 ]_vars

C2_Witness == deductions = 2 /\ dedSinceRest = 1 /\ gamestate = "awaiting_pick"

\* C3: of two executeGameRound calls issued from rest, the second while the
\* first's start-round request is outstanding, the first has deducted its
\* bet and the second throws without deducting: one deduction is applied.
C3_SecondCallFails ==
  [][ \A b \in Bets :
        (ExecuteGameRound(2, b) /\ execs[1].st = "pending") =>
           /\ execs'[2].st = "threw"
           /\ balance' = balance
           /\ balance = InitialBalance - execs[1].bet
           /\ deductions = 1 /\ deductions' = 1 ]_vars

C3_Witness ==
  /\ execs[1].st = "pending" /\ execs[1].bet = 2
  /\ execs[2].st = "threw"
  /\ balance = InitialBalance - 2

\* C4: while one call's start-round request is outstanding, no other
\* executeGameRound call deducts a bet, issues a start-round request or
\* changes the phase.
C4_OneRoundInFlight ==
  [][ \A c \in CallIds, b \in Bets :
        (Pending # {} /\ ExecuteGameRound(c, b)) =>
           /\ balance' = balance
           /\ Pending' = Pending
           /\ gamestate' = gamestate ]_vars

\* C5 as stated: within one handleGameRound invocation finalizeRound is
\* called at most once, and only on a win or after an active-bet failure.
C5_FinalizeOnlyWinOrActiveBet ==
  /\ obs.finalizeCalls <= 1
  /\ obs.finalizeCalls > 0 => (IsWin(playResponse) \/ activeBetError)

\* C5 as amended: within one handleGameRound invocation finalizeRound is
\* called at most once, and only on a win, after an active-bet failure, or
\* when the caller set forceEndRound; never on an ordinary loss otherwise.
C5_FinalizeOnlyWinRecoveryOrForced ==
  /\ obs.finalizeCalls <= 1
  /\ obs.finalizeCalls > 0 =>
       (IsWin(playResponse) \/ activeBetError \/ opts.forceEndRound)
  /\ (hgPc = "done" /\ ~IsWin(playResponse) /\ ~activeBetError /\ ~opts.forceEndRound)
       => obs.finalizeCalls = 0

C5_Witness ==
  /\ hgPc = "done"
  /\ obs.finalizeCalls = 1
  /\ IsWin(playResponse)
  /\ ~opts.forceEndRound

\* C6: at most one pick is accepted per round; a pointertap delivered after
\* a selection was recorded changes neither the selection nor the position,
\* starts no animation and no finalize call; the accepting run leaves every
\* cup non-interactive.
C6_OnePickPerRound ==
  [][ /\ obs'.picks <= 1
      /\ (chosenIdx # NoPick /\ \E c \in Cups : PointerTap(c)) =>
           /\ UNCHANGED <<chosenIdx, hgPc, fins, interactive, diamondVars>>
           /\ obs'.finalizeCalls = obs.finalizeCalls
           /\ obs'.animSteps = obs.animSteps
      /\ (chosenIdx = NoPick /\ chosenIdx' # NoPick) =>
           \A c \in Cups : ~interactive'[c] ]_vars

C6_Witness ==
  /\ rounds = 1
  /\ hgPc = "finalizeWin"
  /\ obs.lateTaps
  /\ obs.picks = 1

\* C7 as stated: when the start-round response is a win, the diamond is
\* revealed at the player's selection, finalizeRound is called exactly once
\* and showWinModal receives payoutMultiplier x bet.
C7_WinPath ==
  IsWin(playResponse) =>
     /\ obs.revealAt # NoPick => obs.revealAt = chosenIdx
     /\ obs.modalArg # -1 => obs.modalArg = playResponse.pm * HGBet
     /\ hgPc = "done" =>
          /\ obs.revealAt = chosenIdx
          /\ obs.finalizeCalls = 1
          /\ opts.showWinModal => obs.modalArg = playResponse.pm * HGBet

\* C7 as amended: when the start-round response is a win and forceEndRound
\* is not set, the diamond is revealed at the player's selection,
\* finalizeRound is called exactly once and showWinModal, when given,
\* receives payoutMultiplier x bet.
C7_WinPathUnforced ==
  (IsWin(playResponse) /\ ~opts.forceEndRound) =>
     /\ obs.revealAt # NoPick => obs.revealAt = chosenIdx
     /\ obs.modalArg # -1 => obs.modalArg = playResponse.pm * HGBet
     /\ hgPc = "done" =>
          /\ obs.revealAt = chosenIdx
          /\ obs.finalizeCalls = 1
          /\ opts.showWinModal => obs.modalArg = playResponse.pm * HGBet

C7_Witness ==
  /\ hgPc = "done"
  /\ IsWin(playResponse) /\ ~opts.forceEndRound /\ opts.showWinModal
  /\ chosenIdx = 2 /\ obs.revealAt = 2
  /\ obs.modalArg = 6

\* C8: when the round is not a win, the cup the diamond is revealed at is an
\* index of {0,1,2} other than the selection, and each of the two other
\* indices can be the one drawn.
C8_LossRevealsOtherCup ==
  /\ (~IsWin(playResponse) /\ obs.revealAt # NoPick) =>
        /\ chosenIdx \in Cups
        /\ obs.revealAt \in Cups \ {chosenIdx}
  /\ hgPc = "lossLower" =>
        \A t \in Cups \ {chosenIdx} : ENABLED LossLowerDone(t)
  /\ (hgPc = "lossLoop" /\ otherIdx = chosenIdx) =>
        \A t \in Cups \ {chosenIdx} : ENABLED LossRedraw(t)

C8_Witness ==
  /\ hgPc = "done"
  /\ ~IsWin(playResponse)
  /\ chosenIdx = 0 /\ obs.revealAt = 2

\* C9: after an active-bet failure of the start-round call handleGameRound
\* does not throw, the bet stays deducted until finalizeRound returns, every
\* cup can be picked, one pick is accepted, finalizeRound is called exactly
\* once after it, and no lift, lower or reveal runs.
C9_ActiveBetRecovery ==
  activeBetError =>
     /\ hgPc # "rejected"
     /\ fins[HGFin] # "returned" => balance = obs.balBefore - HGBet
     /\ hgPc = "awaitPick" =>
          \A c \in Cups : interactive[c] /\ ENABLED PointerTap(c)
     /\ obs.picks = (IF chosenIdx # NoPick THEN 1 ELSE 0)
     /\ obs.finalizeCalls = obs.picks
     /\ obs.animSteps = 0
     /\ obs.revealAt = NoPick
     /\ ~diamondVisible

C9_Witness ==
  /\ activeBetError
  /\ hgPc = "done"
  /\ obs.finalizeCalls = 1
  /\ ~opts.forceEndRound

\* C10: when onRest is notified the phase is rest, so that canStartPlay()
\* is true, on the win, loss and recovery paths alike.
C10_RestWhenNotified ==
  obs.restPhase # "none" => obs.restPhase = "rest"

\* C11: when executeGameRound fails with an error that is not classified
\* as active-bet, the phase is rest afterwards, executeGameRound has thrown
\* and handleGameRound has thrown in turn, and no cup can be picked in that
\* round.
C11_FatalStartResets ==
  (obs.execErr # "none" /\ ~isActiveBetError(obs.execErr)) =>
     /\ gamestate = "rest"
     /\ execs[HGCall].st = "threw"
     /\ hgPc = "rejected"
     /\ obs.picks = 0
     /\ \A c \in Cups : ~interactive[c]
     /\ (listeners => chosenIdx # NoPick)

C11_Witness ==
  /\ obs.execErr = "network"
  /\ hgPc = "rejected"
  /\ gamestate = "rest"
  /\ balance = InitialBalance - HGBet

\* C12: the step in which finalizeRound returns its confirmation leaves the
\* balance at the confirmed amount, the confirmation stored as the last
\* finalize result, and the phase at rest, whatever the phase was.
C12_FinalizeEndsInRest ==
  [][ \A f \in FinIds :
        (fins[f] = "pending" /\ fins'[f] = "returned") =>
           /\ endRoundResponse'.present
           /\ balance' = endRoundResponse'.amount \div API_MULTIPLIER
           /\ gamestate' = "rest" ]_vars

\* C13: the step in which the end-round call of finalizeRound fails and
\* finalizeRound throws to its caller leaves the phase, the balance and the last
\* finalize result as they were.
C13_FinalizeFailureKeepsState ==
  [][ \A f \in FinIds :
        (fins[f] = "pending" /\ fins'[f] = "threw") =>
           UNCHANGED <<gamestate, balance, endRoundResponse>> ]_vars

C13_Witness ==
  /\ fins[1] = "threw"
  /\ gamestate = "resolving"
  /\ balance = InitialBalance - 1

\* C14: canAdjustBet and canStartPlay hold exactly in rest, canPickCup
\* exactly in awaiting_pick; starting and picking are never both permitted,
\* and nothing is permitted in playing or resolving.
C14_GatesFollowPhase ==
  /\ gamestate \in GameStates
  /\ canAdjustBet <=> gamestate = "rest"
  /\ canStartPlay <=> gamestate = "rest"
  /\ canPickCup <=> gamestate = "awaiting_pick"
  /\ ~(canStartPlay /\ canPickCup)
  /\ gamestate \in {"playing", "resolving"} =>
       (~canAdjustBet /\ ~canStartPlay /\ ~canPickCup)

C14_Witness ==
  /\ gamestate = "resolving"
  /\ ~canPickCup /\ ~canStartPlay /\ ~canAdjustBet
  /\ deductions = 1

\* C15: a pointertap is accepted only while the state machine permits a
\* pick: in the step that accepts it the phase is awaiting_pick.
C15_PickOnlyWhenPermitted ==
  [][ (chosenIdx = NoPick /\ chosenIdx' # NoPick) =>
         (gamestate = "awaiting_pick" /\ canPickCup) ]_vars

\* something of the round is pickable, picked, animated or revealed
RoundVisible ==
  \/ \E c \in Cups : interactive[c]
  \/ obs.picks > 0
  \/ obs.animSteps > 0
  \/ obs.revealAt # NoPick
  \/ diamondVisible

\* no tap can be accepted
NoPickPossible ==
  /\ \A c \in Cups : ~interactive[c]
  /\ listeners => chosenIdx # NoPick

\* C16 as stated: in every round that is not on the recovery path the
\* start-round response has been received before any cup is pickable and
\* before any lift, lower or reveal; no pick is accepted while the request
\* is outstanding.
C16_ResponseBeforePick ==
  /\ (~activeBetError /\ RoundVisible) => playResponse.present
  /\ hgPc = "exec" => (NoPickPossible /\ obs.picks = 0)

\* C16, amended: the same for the rounds in which handleGameRound makes the
\* start-round call, that is without skipAnimation.
C16_ResponseBeforePickWhenStarted ==
  /\ (~activeBetError /\ ~opts.skipAnimation /\ RoundVisible) =>
        (playResponse.present /\ execs[HGCall].st = "returned")
  /\ hgPc = "exec" => (NoPickPossible /\ obs.picks = 0 /\ ~RoundVisible)

C16_Witness ==
  /\ hgPc = "lossLiftOther"
  /\ ~opts.skipAnimation
  /\ ~activeBetError
  /\ playResponse.present
  /\ execs[HGCall].st = "returned"
  /\ obs.picks = 1

\* the round takes the win branch of lines 141-169
WinBranch == IsWin(playResponse) /\ ~SkipOutcome

HGSettled == hgPc \in {"done", "rejected"}

\* C17: every invocation of handleGameRound that has begun eventually
\* resolves after onRest or rejects, also when the end-round call made after
\* the pick fails.
C17_RoundSettles ==
  \A r \in 1..MaxRounds :
     (rounds = r /\ hgPc = "import") ~> (rounds = r /\ HGSettled)

\* C20: the loop that draws the other cup ends for every selection, and the
\* steps after it run with an index of {0,1,2} other than the selection.
C20_LoopTerminates ==
  /\ (hgPc = "lossLoop") ~> (hgPc = "lossLiftOther")
  /\ [](hgPc \in {"lossLiftOther", "lossHold2", "lossLowerOther"} =>
          (otherIdx \in Cups /\ otherIdx # chosenIdx))

C20_Witness ==
  /\ hgPc = "lossLoop"
  /\ chosenIdx \in Cups
  /\ otherIdx = chosenIdx

\* a control takes input
Enabled(control) == control.eventMode = "static"

\* the groups that take input
GateOf(cs) == {g \in Groups : Enabled(cs[g])}

\* C18: after either gate function has run for a phase, the bet buttons and
\* the play button are enabled exactly when that phase is rest and the cups
\* exactly when it is awaiting_pick, whatever the controls were before; and
\* in every phase both functions enable the same controls.
C18_GatesAgree ==
  /\ \A g \in ui.on :
        Enabled(ui.controls[g]) <=>
           (ui.for = IF g = "cups" THEN "awaiting_pick" ELSE "rest")
  /\ GateOf(updateUIStates(ui.controls))
        = GateOf(updateControlsForState(ui.controls, Groups, gamestate))
  /\ gamestate \in {"playing", "resolving"} =>
        GateOf(updateControlsForState(ui.controls, Groups, gamestate)) = {}

C18_Witness ==
  /\ ui.by = "updateControlsForState"
  /\ ui.on = Groups
  /\ ui.for = "awaiting_pick"
  /\ gamestate = "awaiting_pick"
  /\ GateOf(ui.controls) = {"cups"}
  /\ ui.controls["playButton"].alpha = AlphaControlsOff

====
